---- MODULE Spec2Model ----
(***************************************************************************)
(* Model of src/src/main.rs: a categorical Naive Bayes classifier that is  *)
(* evaluated by k-fold cross-validation.                                   *)
(*                                                                         *)
(* Numbers.  The program computes with f64 (IEEE-754 binary64, round to    *)
(* nearest, ties to even).  A finite non-negative f64 is modelled by the   *)
(* natural number value * 2^FracBits, held as a sequence of limbs (Big);   *)
(* F64Add and F64Div round exactly as the hardware does, so an accuracy    *)
(* and the running average are the very doubles the program prints.        *)
(*                                                                         *)
(* Every probability a Model stores is 1/len added a number of times for   *)
(* one fixed len = data.len(); the Model keeps the number of terms added   *)
(* (the numerator) and F64Sum gives the double this stands for.            *)
(*                                                                         *)
(* predict_class adds the log10 of such probabilities.  The model does not *)
(* evaluate log10: predict_class yields the terms in the order in which    *)
(* their logarithms are added, and F64SumGreater yields every outcome the  *)
(* f64 comparison of two such sums can have.  The outcome is fixed when    *)
(* the two term sequences are identical (the sums are the same double) or  *)
(* when their products differ by more than the rounding error can bridge;  *)
(* otherwise both outcomes are allowed.                                    *)
(*                                                                         *)
(* Rows carry a ghost field id, the position of the row in the sequence    *)
(* that is split (the shuffled data), counted from 0; the program never    *)
(* reads it.                                                               *)
(***************************************************************************)
EXTENDS Integers, Sequences, FiniteSets

\* ---------------------------------------------------------------- constants

\* const CROSSVALIDATION_SPLITS: usize = 10;
CROSSVALIDATION_SPLITS == 10

\* const ATTRIBUTES_COUNT: usize = 16;
ATTRIBUTES_COUNT == 16

\* Largest number of records in the input file of a whole-program run.
MaxRecords == 22

\* An input file of a whole-program run holds at most MaxMinority rows that
\* differ from the others.
MaxMinority == 1

\* Longest training set handed to Model::new in SpecFit and SpecPredict.
MaxTrain == 5

\* Longest training set and testing set in SpecAccuracy.
MaxAccuracyTrain == 2
MaxTest == 9

\* enum Choice, enum Class
Choice == {"Yes", "No", "Unknown"}
Class == {"Republican", "Democrat"}

Attrs == 1..ATTRIBUTES_COUNT

\* struct Row { class, attributes }, with the ghost id
Row(id, class, attributes) ==
    [id |-> id, class |-> class, attributes |-> attributes]

\* ------------------------------------------------------------------ helpers

\* seq[k] of the source, k counted from 0
At(seq, k) == seq[k + 1]

\* Vec::remove(idx), idx counted from 0
RemoveAtFirst(seq, idx) ==
    [k \in 1..(Len(seq) - 1) |-> seq[k + 1]]

RemoveAt(seq, idx) ==
    [k \in 1..(Len(seq) - 1) |-> IF k <= idx THEN seq[k] ELSE seq[k + 1]]

\* iter().flatten().collect()
RECURSIVE Flatten(_)
Flatten(seqs) ==
    IF seqs = <<>> THEN <<>> ELSE Head(seqs) \o Flatten(Tail(seqs))

\* ------------------------------------------------------ natural numbers, Big

\* A Big is a natural number as its limbs in base Base, least significant
\* first, without leading zero limbs; <<>> is 0.
LimbBits == 15
Base == 32768

RECURSIVE Pow2(_)
Pow2(s) == IF s = 0 THEN 1 ELSE 2 * Pow2(s - 1)

RECURSIVE BigNorm(_)
BigNorm(a) ==
    IF a = <<>> THEN <<>>
    ELSE IF a[Len(a)] = 0 THEN BigNorm(SubSeq(a, 1, Len(a) - 1))
    ELSE a

RECURSIVE BigOfInt(_)
BigOfInt(k) ==
    IF k = 0 THEN <<>> ELSE <<k % Base>> \o BigOfInt(k \div Base)

RECURSIVE BigAddCarry(_, _, _)
BigAddCarry(a, b, carry) ==
    IF a = <<>> /\ b = <<>>
    THEN IF carry = 0 THEN <<>> ELSE <<carry>>
    ELSE LET x == (IF a = <<>> THEN 0 ELSE a[1])
                  + (IF b = <<>> THEN 0 ELSE b[1]) + carry
         IN  <<x % Base>>
             \o BigAddCarry(IF a = <<>> THEN <<>> ELSE Tail(a),
                            IF b = <<>> THEN <<>> ELSE Tail(b),
                            x \div Base)

BigAdd(a, b) == BigAddCarry(a, b, 0)

\* a - b for a >= b
RECURSIVE BigSubBorrow(_, _, _)
BigSubBorrow(a, b, borrow) ==
    IF a = <<>> THEN <<>>
    ELSE LET x == a[1] - (IF b = <<>> THEN 0 ELSE b[1]) - borrow
         IN  <<IF x < 0 THEN x + Base ELSE x>>
             \o BigSubBorrow(Tail(a),
                             IF b = <<>> THEN <<>> ELSE Tail(b),
                             IF x < 0 THEN 1 ELSE 0)

BigSub(a, b) == BigNorm(BigSubBorrow(a, b, 0))

\* a * k for 0 <= k <= Base
RECURSIVE BigMulCarry(_, _, _)
BigMulCarry(a, k, carry) ==
    IF a = <<>>
    THEN IF carry = 0 THEN <<>> ELSE <<carry>>
    ELSE LET x == a[1] * k + carry
         IN  <<x % Base>> \o BigMulCarry(Tail(a), k, x \div Base)

BigMulSmall(a, k) == IF k = 0 THEN <<>> ELSE BigMulCarry(a, k, 0)

\* a * b, one limb of b at a time
RECURSIVE BigMul(_, _)
BigMul(a, b) ==
    IF a = <<>> \/ b = <<>> THEN <<>>
    ELSE BigAdd(BigMulSmall(a, b[1]),
                IF Tail(b) = <<>> THEN <<>> ELSE <<0>> \o BigMul(a, Tail(b)))

\* one limb of a long division by k < 2^30, a binary digit at a time: with
\* the remainder rem < k so far, <<the next limb of the quotient, the new
\* remainder>> after the bit lowest digits of limb are brought down
BigDivDigit(rem, limb, bit) == 2 * rem + ((limb \div Pow2(bit - 1)) % 2)

RECURSIVE BigDivBits(_, _, _, _, _)
BigDivBits(limb, k, bit, rem, q) ==
    IF bit = 0 THEN <<q, rem>>
    ELSE IF BigDivDigit(rem, limb, bit) >= k
    THEN BigDivBits(limb, k, bit - 1, BigDivDigit(rem, limb, bit) - k, 2 * q + 1)
    ELSE BigDivBits(limb, k, bit - 1, BigDivDigit(rem, limb, bit), 2 * q)

\* <<a div k, a mod k>> for 0 < k < 2^30, limb by limb from the most
\* significant one (a whole limb at a time when k <= Base); the quotient may
\* have leading zeros
RECURSIVE BigDivLoop(_, _, _, _, _)
BigDivLoop(a, k, idx, rem, quot) ==
    IF idx = 0 THEN <<quot, rem>>
    ELSE IF k <= Base
    THEN BigDivLoop(a, k, idx - 1,
                    (rem * Base + a[idx]) % k,
                    <<(rem * Base + a[idx]) \div k>> \o quot)
    ELSE BigDivLoop(a, k, idx - 1,
                    BigDivBits(a[idx], k, LimbBits, rem, 0)[2],
                    <<BigDivBits(a[idx], k, LimbBits, rem, 0)[1]>> \o quot)

BigDivRem(a, k) == BigDivLoop(a, k, Len(a), 0, <<>>)

BigDivSmall(a, k) == BigNorm(BigDivRem(a, k)[1])

\* a < b
RECURSIVE BigLess(_, _)
BigLess(a, b) ==
    IF Len(a) # Len(b) THEN Len(a) < Len(b)
    ELSE IF a = <<>> THEN FALSE
    ELSE IF a[Len(a)] # b[Len(b)] THEN a[Len(a)] < b[Len(b)]
    ELSE BigLess(SubSeq(a, 1, Len(a) - 1), SubSeq(b, 1, Len(b) - 1))

BigLeq(a, b) == ~BigLess(b, a)

BigAbsDiff(a, b) == IF BigLess(a, b) THEN BigSub(b, a) ELSE BigSub(a, b)

RECURSIVE SmallBitLen(_)
SmallBitLen(x) == IF x = 0 THEN 0 ELSE 1 + SmallBitLen(x \div 2)

\* the number of binary digits of a
BigBitLen(a) ==
    IF a = <<>> THEN 0
    ELSE LimbBits * (Len(a) - 1) + SmallBitLen(a[Len(a)])

BigIsOdd(a) == a # <<>> /\ a[1] % 2 = 1

\* a * 2^d
BigShl(a, d) ==
    IF a = <<>> THEN <<>>
    ELSE [k \in 1..(d \div LimbBits) |-> 0]
         \o BigMulSmall(a, Pow2(d % LimbBits))

\* a div 2^d
BigShr(a, d) ==
    IF d \div LimbBits >= Len(a) THEN <<>>
    ELSE BigDivSmall(SubSeq(a, (d \div LimbBits) + 1, Len(a)),
                     Pow2(d % LimbBits))

\* a mod 2^d = 0
BigLowZero(a, d) ==
    \A k \in 1..Len(a) :
        IF k <= d \div LimbBits THEN a[k] = 0
        ELSE IF k = (d \div LimbBits) + 1 THEN a[k] % Pow2(d % LimbBits) = 0
        ELSE TRUE

\* ---------------------------------------------------------------------- f64

\* A finite f64 x >= 0 is the Big x * 2^FracBits.  The doubles of the model
\* are 0 or at least 2^(MantissaBits - FracBits) = 2^-37 (1f64 / len is, and
\* so is accuracy / 10, for every len < 2^30), so this is an integer.
FracBits == 90
MantissaBits == 53

\* the extra binary digits a quotient is computed with before it is rounded
DivBits == 15

\* round to nearest, ties to even: q (with sticky saying that the exact value
\* lies strictly above q) rounded to MantissaBits significant digits
F64Round(q, sticky) ==
    IF BigBitLen(q) <= MantissaBits THEN q
    ELSE LET d == BigBitLen(q) - MantissaBits
             q1 == BigShr(q, d - 1)
             t == BigShr(q1, 1)
             rest == sticky \/ ~BigLowZero(q, d - 1)
             up == BigIsOdd(q1) /\ (rest \/ BigIsOdd(t))
         IN  BigShl(IF up THEN BigAdd(t, <<1>>) ELSE t, d)

F64Zero == <<>>
F64One == BigShl(<<1>>, FracBits)

\* a + b
F64Add(a, b) == F64Round(BigAdd(a, b), FALSE)

\* a / (k as f64), for an integer 0 < k < 2^30
F64Div(a, k) ==
    LET dr == BigDivRem(BigShl(a, DivBits), k)
    IN  BigShr(F64Round(BigNorm(dr[1]), dr[2] # 0), DivBits)

\* start, then `+= 1f64 / n as f64` k times
RECURSIVE F64Sum(_, _, _)
F64Sum(start, k, n) ==
    IF k <= 0 THEN start
    ELSE F64Sum(F64Add(start, F64Div(F64One, n)), k - 1, n)

\* ------------------------------------------------- split_for_crossvalidation

\* a row without its ghost id
Content(r) == [class |-> r.class, attributes |-> r.attributes]

\* every sequence of n contents in which each content c occurs left[c] times
RECURSIVE Arrangements(_, _)
Arrangements(left, n) ==
    IF n = 0 THEN {<<>>}
    ELSE UNION {{<<c>> \o s : s \in Arrangements([left EXCEPT ![c] = @ - 1], n - 1)} :
                   c \in {x \in DOMAIN left : left[x] > 0}}

\* data.shuffle(&mut thread_rng()): any permutation of d.  The rows are
\* given by their contents, so the outcomes are the rearrangements of the
\* contents of d; the ghost id is the position after the shuffle.
Shuffle(d) ==
    LET contents == {Content(d[k]) : k \in 1..Len(d)}
        left == [c \in contents |->
                    Cardinality({k \in 1..Len(d) : Content(d[k]) = c})]
    IN  {[k \in 1..Len(d) |-> Row(k - 1, s[k].class, s[k].attributes)] :
            s \in Arrangements(left, Len(d))}

\* data.chunks_exact(chunk_size).map(|x| x.to_vec()).collect(), chunk_size > 0:
\* the len / chunk_size full chunks in order; the rest of data is left out
ChunksExact(d, chunk_size) ==
    [c \in 1..(Len(d) \div chunk_size) |->
        [k \in 1..chunk_size |-> d[(c - 1) * chunk_size + k]]]

\* res[res_counter].push(row)
PushTo(folds, counter, row) ==
    [folds EXCEPT ![counter + 1] = Append(@, row)]

\* the index of data the remainder loop reads in iteration i
RemainderIndex(reslen, iter) == reslen + iter

\* res_counter += 1
NextResCounterStuck(c) == c
NextResCounter(c) == c + 1

\* ------------------------------------------------------------------- Model

\* Model::new.  A probability is kept as the number of terms 1/n it is the
\* f64 sum of, n = data.len().  Every attr_probs entry starts from
\* 1f64 / data.len() (one term), the class probabilities from 0f64 (none).
InitialModelZero(n) ==
    [n |-> n,
     attr_probs |-> [c \in Class |-> [i \in Attrs |-> [v \in Choice |-> 0]]],
     class_probs |-> [c \in Class |-> 0]]

InitialModel(n) ==
    [n |-> n,
     attr_probs |-> [c \in Class |-> [i \in Attrs |-> [v \in Choice |-> 1]]],
     class_probs |-> [c \in Class |-> 0]]

\* one iteration of `for row in data`: one more term 1/n for the class and
\* for each of its attribute values
FitRow(m, row) ==
    [m EXCEPT
       !.class_probs[row.class] = @ + 1,
       !.attr_probs[row.class] =
           [i \in Attrs |->
               [v \in Choice |->
                   IF v = row.attributes[i]
                   THEN m.attr_probs[row.class][i][v] + 1
                   ELSE m.attr_probs[row.class][i][v]]]]

RECURSIVE FitRows(_, _, _)
FitRows(m, d, k) ==
    IF k > Len(d) THEN m ELSE FitRows(FitRow(m, d[k]), d, k + 1)

Model_new(d) == FitRows(InitialModel(Len(d)), d, 1)

\* the f64 held in class_probs[c]: 0f64, then 1/n added once per row
ClassProb(m, c) == F64Sum(F64Zero, m.class_probs[c], m.n)

\* the f64 held in an attr_probs entry of k terms: 1/n, then 1/n added once
\* per row
F64Terms(k, n) == F64Sum(F64Div(F64One, n), k - 1, n)

AttrProb(m, c, i, v) == F64Terms(m.attr_probs[c][i][v], m.n)

\* predict_class: the probabilities whose log10 are added, in the order in
\* which they are added (each as its number of terms 1/n)
predict_class(m, row, class) ==
    <<m.class_probs[class]>>
    \o [i \in Attrs |-> m.attr_probs[class][i][row.attributes[i]]]

RECURSIVE BigProductLoop(_, _, _)
BigProductLoop(terms, k, acc) ==
    IF k > Len(terms) THEN acc
    ELSE BigProductLoop(terms, k + 1, BigMul(acc, BigOfInt(terms[k])))

BigProduct(terms) == BigProductLoop(terms, 1, <<1>>)

RECURSIVE BigTermSum(_, _, _)
BigTermSum(terms, k, acc) ==
    IF k > Len(terms) THEN acc
    ELSE BigTermSum(terms, k + 1, BigAdd(acc, BigOfInt(terms[k])))

\* f64::log10 and the additions round, and the precision of f64::log10 is
\* left open by the standard library, so the order of two sums of logarithms
\* is known only when the exact values are far enough apart.  With u = 2^-53
\* and n = data.len() < 2^30:
\*   - a probability of k terms 1/n is (k/n) * (1 + d) with |d| <= k * u, so
\*     its log10 is off by at most 0.435 * k * u;
\*   - a log10 is at most log10(n) < 9.04 in size; taking f64::log10 to be
\*     within 4u of it relatively, the 17 logarithms of a score add at most
\*     615 u, and the 16 additions that round at most 2459 u.
\* The two scores are thus off by at most 0.435 * u * (the sum of all terms
\* + 14156), while log10(p / q) >= 0.434 * (p - q) / p for products p > q.
\* LibmSlack rounds 14156 up, and the margin below doubles the bound.
LibmSlack == 16384

ScoreSlack(a, b) ==
    BigTermSum(b, 1, BigTermSum(a, 1, BigOfInt(LibmSlack)))

\* p exceeds q by more than p * slack * 2^-52
FarAbove(p, q, slack) ==
    /\ BigLess(q, p)
    /\ BigLess(BigMul(p, slack), BigShl(BigSub(p, q), MantissaBits - 1))

\* the product of the terms a exceeds that of the terms b by more than the
\* rounding of the two sums of logarithms can bridge
ClearlyGreater(a, b) ==
    FarAbove(BigProduct(a), BigProduct(b), ScoreSlack(a, b))

\* every outcome `a > b` can have for the f64 sums of the log10 of the terms
\* a and of the terms b.  A first term of 0 is a class that has no row: its
\* log10 is -inf (NaN for an empty training set), and the sum is not greater
\* than anything.
F64SumGreater(a, b) ==
    IF a[1] = 0 THEN {FALSE}
    ELSE IF b[1] = 0 THEN {TRUE}
    ELSE IF a = b THEN {FALSE}
    ELSE IF ClearlyGreater(a, b) THEN {TRUE}
    ELSE IF ClearlyGreater(b, a) THEN {FALSE}
    ELSE BOOLEAN

\* predict: the classes it can return
predict_ge(m, row) ==
    {IF ~g THEN "Republican" ELSE "Democrat" :
        g \in F64SumGreater(predict_class(m, row, "Democrat"),
                            predict_class(m, row, "Republican"))}

predict(m, row) ==
    {IF g THEN "Republican" ELSE "Democrat" :
        g \in F64SumGreater(predict_class(m, row, "Republican"),
                            predict_class(m, row, "Democrat"))}

\* what the calls of predict in get_accuracy can return for the first k rows
\* of ts: rows with the same attributes get the same prediction
RECURSIVE Predictions(_, _, _)
Predictions(m, ts, k) ==
    IF k = 0 THEN {<<>>}
    ELSE UNION {{Append(p, c) :
                    c \in {x \in predict(m, ts[k]) :
                              \A j \in 1..(k - 1) :
                                  ts[j].attributes = ts[k].attributes => p[j] = x}} :
                   p \in Predictions(m, ts, k - 1)}

\* get_accuracy: res starts at 0f64 and gains 1f64 / len for every row
\* predicted as its own class
RECURSIVE AccuracyLoop(_, _, _, _)
AccuracyLoop(ts, preds, k, res) ==
    IF k > Len(ts) THEN res
    ELSE AccuracyLoop(ts, preds, k + 1,
                      IF preds[k] = ts[k].class
                      THEN F64Add(res, F64Div(F64One, Len(ts)))
                      ELSE res)

get_accuracy(ts, preds) == AccuracyLoop(ts, preds, 1, F64Zero)

\* -------------------------------------------------------------------- state

VARIABLES
    pc,                  \* where the program (or the Model harness) stands
    data,                \* main: the rows read, then shuffled
    res,                 \* split_for_crossvalidation: the folds being built
    res_len,             \* split_for_crossvalidation: res.len() after chunking
    res_counter,         \* split_for_crossvalidation: res_counter
    i,                   \* split_for_crossvalidation: the remainder loop's i
    split_data,          \* main: the folds returned
    testing_set_idx,     \* main: the loop variable
    training_set_merged, \* the rows last passed to Model::new
    testing_set,         \* the rows last passed to get_accuracy
    model,               \* the Model last built
    row,                 \* the row last passed to predict
    prediction,          \* what predict returned for it
    predictions,         \* what predict returned to get_accuracy, row by row
    accuracy,            \* what get_accuracy returned last
    avg_accuracy,        \* main: <<>> is None, <<x>> is Some(x)
    printed              \* main: the accuracies printed so far, in order

vars == <<pc, data, res, res_len, res_counter, i, split_data, testing_set_idx,
          training_set_merged, testing_set, model, row, prediction,
          predictions, accuracy, avg_accuracy, printed>>

splitVars == <<res, res_len, res_counter, i>>
roundVars == <<testing_set_idx, training_set_merged, testing_set, model,
               predictions, accuracy, avg_accuracy, printed>>
unitVars == <<row, prediction>>

NoModel == [n |-> 0]
NoRow == Row(0, "Democrat", <<>>)

\* ------------------------------------------------------------------ inputs

\* rows of class c whose attributes all hold the same Choice
UniformRowsOf(c) == {Row(0, c, [j \in Attrs |-> v]) : v \in Choice}

UniformRows == UNION {UniformRowsOf(c) : c \in Class}

\* rows whose attributes after the first all hold the same Choice
SampleRows ==
    {Row(0, c, [j \in Attrs |-> IF j = 1 THEN v ELSE w]) :
        c \in Class, v \in Choice, w \in Choice}

\* what read_input returns: m rows, the first nb of them b and the others a,
\* for a Republican row a and a Democrat row b
InputFile(m, a, b, nb) ==
    [k \in 1..m |->
        IF k <= nb
        THEN Row(k - 1, b.class, b.attributes)
        ELSE Row(k - 1, a.class, a.attributes)]

InputFiles ==
    {InputFile(m, a, b, nb) :
        m \in 0..MaxRecords, a \in UniformRowsOf("Republican"),
        b \in UniformRowsOf("Democrat"), nb \in 0..MaxMinority}

\* j times the row r
Copies(r, j) == [k \in 1..j |-> r]

\* a run of one row of S followed by a run of one row of S, lo..hi rows in all
TwoRuns(S, lo, hi) ==
    {Copies(r, jn[1]) \o Copies(s, jn[2] - jn[1]) :
        r \in S, s \in S,
        jn \in {x \in (0..hi) \X (lo..hi) : x[1] <= x[2]}}

\* ------------------------------------------------------- the whole program

Init ==
    /\ pc = "read"
    /\ data \in InputFiles
    /\ res = <<>>
    /\ res_len = 0
    /\ res_counter = 0
    /\ i = 0
    /\ split_data = <<>>
    /\ testing_set_idx = 0
    /\ training_set_merged = <<>>
    /\ testing_set = <<>>
    /\ model = NoModel
    /\ row = NoRow
    /\ prediction = "none"
    /\ predictions = <<>>
    /\ accuracy = F64Zero
    /\ avg_accuracy = <<>>
    /\ printed = <<>>

\* line 48: data.shuffle(&mut thread_rng())
ShuffleData ==
    /\ pc = "read"
    /\ data' \in Shuffle(data)
    /\ pc' = "shuffled"
    /\ UNCHANGED <<splitVars, split_data, roundVars, unitVars>>

\* lines 49-54: chunk_size, remainder, the chunks; chunks_exact panics on a
\* chunk size of 0
Chunk ==
    /\ pc = "shuffled"
    /\ LET chunk_size == Len(data) \div CROSSVALIDATION_SPLITS IN
       IF chunk_size = 0
       THEN /\ pc' = "panicked"
            /\ UNCHANGED <<res, res_len>>
       ELSE /\ res' = ChunksExact(data, chunk_size)
            /\ res_len' = Len(res')
            /\ pc' = "remainders"
    /\ res_counter' = 0
    /\ i' = 0
    /\ UNCHANGED <<data, split_data, roundVars, unitVars>>

\* lines 57-60: one iteration of `for i in 0..remainder`; an index past the
\* end of res or of data panics
AddRemainder ==
    /\ pc = "remainders"
    /\ i < Len(data) % CROSSVALIDATION_SPLITS
    /\ IF res_counter >= Len(res) \/ RemainderIndex(res_len, i) >= Len(data)
       THEN /\ pc' = "panicked"
            /\ UNCHANGED <<res, res_counter, i>>
       ELSE /\ res' = PushTo(res, res_counter, At(data, RemainderIndex(res_len, i)))
            /\ res_counter' = NextResCounter(res_counter)
            /\ i' = i + 1
            /\ pc' = "remainders"
    /\ UNCHANGED <<data, res_len, split_data, roundVars, unitVars>>

\* line 62 and line 183: res is returned and becomes split_data
SplitReturn ==
    /\ pc = "remainders"
    /\ i >= Len(data) % CROSSVALIDATION_SPLITS
    /\ split_data' = res
    /\ pc' = "loop"
    /\ UNCHANGED <<data, splitVars, roundVars, unitVars>>

\* lines 186-200: one iteration of `for testing_set_idx in 0..split_data.len()`
Round ==
    /\ pc = "loop"
    /\ testing_set_idx < Len(split_data)
    /\ training_set_merged' = Flatten(RemoveAt(split_data, testing_set_idx))
    /\ testing_set' = At(split_data, testing_set_idx)
    /\ model' = Model_new(training_set_merged')
    /\ predictions' \in Predictions(model', testing_set', Len(testing_set'))
    /\ accuracy' = get_accuracy(testing_set', predictions')
    /\ printed' = Append(printed, accuracy')
    /\ avg_accuracy' =
          IF avg_accuracy = <<>>
          THEN <<F64Div(accuracy', CROSSVALIDATION_SPLITS)>>
          ELSE <<F64Add(avg_accuracy[1],
                        F64Div(accuracy', CROSSVALIDATION_SPLITS))>>
    /\ testing_set_idx' = testing_set_idx + 1
    /\ pc' = "loop"
    /\ UNCHANGED <<data, splitVars, split_data, unitVars>>

\* line 202: avg_accuracy.unwrap() panics on None
Report ==
    /\ pc = "loop"
    /\ testing_set_idx >= Len(split_data)
    /\ pc' = IF avg_accuracy = <<>> THEN "panicked" ELSE "done"
    /\ UNCHANGED <<data, splitVars, split_data, roundVars, unitVars>>

Next == ShuffleData \/ Chunk \/ AddRemainder \/ SplitReturn \/ Round \/ Report

Spec == Init /\ [][Next]_vars

\* -------------------------------------------------- the Model, on its own

\* Model::new called on a training set (SpecFit), then predict on a row
\* (SpecPredict); Model::new called on a training set of rows with uniform
\* attributes, then get_accuracy on a testing set of such rows (SpecAccuracy)
Idle ==
    /\ data = <<>>
    /\ res = <<>>
    /\ res_len = 0
    /\ res_counter = 0
    /\ i = 0
    /\ split_data = <<>>
    /\ testing_set_idx = 0
    /\ testing_set = <<>>
    /\ model = NoModel
    /\ row = NoRow
    /\ prediction = "none"
    /\ predictions = <<>>
    /\ accuracy = F64Zero
    /\ avg_accuracy = <<>>
    /\ printed = <<>>

InitModel ==
    /\ pc = "train"
    /\ training_set_merged \in TwoRuns(SampleRows, 1, MaxTrain)
    /\ Idle

InitAccuracy ==
    /\ pc = "train"
    /\ training_set_merged \in TwoRuns(UniformRows, 1, MaxAccuracyTrain)
    /\ Idle

Fit ==
    /\ pc = "train"
    /\ model' = Model_new(training_set_merged)
    /\ pc' = "fitted"
    /\ UNCHANGED <<data, splitVars, split_data, testing_set_idx,
                   training_set_merged, testing_set, predictions, accuracy,
                   avg_accuracy, printed, unitVars>>

CallPredict ==
    /\ pc = "fitted"
    /\ row' \in SampleRows
    /\ prediction' \in predict(model, row')
    /\ pc' = "predicted"
    /\ UNCHANGED <<data, splitVars, split_data, roundVars>>

CallGetAccuracy ==
    /\ pc = "fitted"
    /\ testing_set' \in TwoRuns(UniformRows, 0, MaxTest)
    /\ predictions' \in Predictions(model, testing_set', Len(testing_set'))
    /\ accuracy' = get_accuracy(testing_set', predictions')
    /\ pc' = "evaluated"
    /\ UNCHANGED <<data, splitVars, split_data, testing_set_idx,
                   training_set_merged, model, avg_accuracy, printed, unitVars>>

NextFit == Fit

SpecFit == InitModel /\ [][NextFit]_vars

NextPredict == Fit \/ CallPredict

SpecPredict == InitModel /\ [][NextPredict]_vars

NextAccuracy == Fit \/ CallGetAccuracy

SpecAccuracy == InitAccuracy /\ [][NextAccuracy]_vars

\* ============================================================== properties

K == CROSSVALIDATION_SPLITS

\* the f64 2^-30, which is less than 1e-9
Tolerance == BigShl(<<1>>, FracBits - 30)

\* the f64 x is within Tolerance of num / den
Close(x, num, den) ==
    BigLeq(BigAbsDiff(BigMul(x, BigOfInt(den)), BigShl(BigOfInt(num), FracBits)),
           BigMul(Tolerance, BigOfInt(den)))

\* the f64 nearest to num / den, what `num as f64 / den as f64` gives
Nearest(num, den) == F64Div(BigShl(BigOfInt(num), FracBits), den)

\* split_for_crossvalidation has returned (main holds the folds)
Returned == pc \in {"loop", "done"}

\* at least one round of the loop of main has run
RoundDone == Returned /\ testing_set_idx > 0

\* the ids of the rows of a sequence of rows
Ids(rows) == {rows[k].id : k \in 1..Len(rows)}

\* how often the row with this id occurs in the folds
Occurrences(folds, id) ==
    LET flat == Flatten(folds)
    IN  Cardinality({k \in 1..Len(flat) : flat[k].id = id})

RECURSIVE TotalSize(_)
TotalSize(folds) ==
    IF folds = <<>> THEN 0 ELSE Len(Head(folds)) + TotalSize(Tail(folds))

\* C1: for an input of M >= K records the folds returned have a total size of
\* M and hold every input record exactly once.
C1_EveryRecordOnce ==
    (Returned /\ Len(data) >= K) =>
        /\ TotalSize(split_data) = Len(data)
        /\ \A id \in Ids(data) : Occurrences(split_data, id) = 1

\* C2: for an input of M >= K records the sizes of any two folds returned
\* differ by at most 1.
C2_FoldSizesBalanced ==
    (Returned /\ Len(data) >= K) =>
        \A f, g \in 1..Len(split_data) :
            Len(split_data[f]) - Len(split_data[g]) <= 1

\* some fold received a remainder row and some fold did not
C2_Witness ==
    /\ Returned
    /\ Len(data) >= K
    /\ \E f, g \in 1..Len(split_data) :
          Len(split_data[f]) = Len(split_data[g]) + 1

\* C3: for an input of M >= K records split_for_crossvalidation completes and
\* returns exactly K folds.
C3_ReturnsKFolds ==
    (Len(data) >= K /\ pc \in {"panicked", "loop", "done"}) =>
        /\ pc # "panicked"
        /\ Len(split_data) = K

\* ---- the Model

\* the number of rows of class c in a training set
CountClass(T, c) == Cardinality({k \in 1..Len(T) : T[k].class = c})

\* the number of rows of class c with Choice v at attribute i
CountAttr(T, c, a, v) ==
    Cardinality({k \in 1..Len(T) : T[k].class = c /\ T[k].attributes[a] = v})

Fitted == pc \in {"fitted", "predicted", "evaluated"}

\* every entry attr_probs[c][i][v] exists and is the f64 sum of
\* 1 + count(c, i, v) terms 1/|T|
EntriesCounted ==
    /\ model.n = Len(training_set_merged)
    /\ model.n > 0
    /\ DOMAIN model.attr_probs = Class
    /\ \A c \in Class :
          /\ DOMAIN model.attr_probs[c] = Attrs
          /\ \A a \in Attrs :
                /\ DOMAIN model.attr_probs[c][a] = Choice
                /\ \A v \in Choice :
                      model.attr_probs[c][a][v]
                         = 1 + CountAttr(training_set_merged, c, a, v)

\* the numbers of terms that occur among the entries of attr_probs; an entry
\* of k terms holds the f64 F64Terms(k, model.n)
EntryTerms ==
    {model.attr_probs[c][a][v] : c \in Class, a \in Attrs, v \in Choice}

\* C4 as stated: after Model::new on a non-empty training set T every entry
\* attr_probs[c][i][v] exists and is the f64 (1 + the number of rows of T of
\* class c with v at attribute i) / |T|, which is strictly positive.
C4_LikelihoodsExact ==
    Fitted =>
        /\ EntriesCounted
        /\ \A k \in EntryTerms :
              /\ F64Terms(k, model.n) = Nearest(k, model.n)
              /\ BigLess(F64Zero, F64Terms(k, model.n))

\* C4 as amended: every entry exists, is the f64 sum of 1 + count terms 1/|T|,
\* lies within 1e-9 of (1 + count) / |T| and is strictly positive.  (The
\* training sets here have at most MaxTrain rows.  The sum stays below 2,
\* so each of the at most |T| additions rounds by at most 2^-53 and the
\* distance stays below 1e-9 up to |T| = 2^22; it does not for every |T|.)
C4_Likelihoods ==
    Fitted =>
        /\ EntriesCounted
        /\ \A k \in EntryTerms :
              /\ Close(F64Terms(k, model.n), k, model.n)
              /\ BigLess(F64Zero, F64Terms(k, model.n))

\* a model with an entry for a triple that never occurs in T, and an entry
\* for a triple that occurs twice whose f64 is not the one nearest to
\* (1 + 2) / |T|
C4_Witness ==
    /\ pc = "fitted"
    /\ \E c \in Class, a \in Attrs, v \in Choice :
          /\ CountAttr(training_set_merged, c, a, v) = 0
          /\ model.attr_probs[c][a][v] = 1
          /\ AttrProb(model, c, a, v) = Nearest(1, model.n)
    /\ \E c \in Class, a \in Attrs, v \in Choice :
          /\ CountAttr(training_set_merged, c, a, v) = 2
          /\ model.attr_probs[c][a][v] = 3
          /\ AttrProb(model, c, a, v) # Nearest(3, model.n)
          /\ Close(AttrProb(model, c, a, v), 3, model.n)

\* count(c) and 1 + count(c, i, r[i]) for every attribute i, from T itself
CountTerms(T, r, c) ==
    <<CountClass(T, c)>>
    \o [a \in Attrs |-> 1 + CountAttr(T, c, a, r.attributes[a])]

\* count(c) * the product over i of (1 + count(c, i, r[i]))
Score(T, r, c) == BigProduct(CountTerms(T, r, c))

\* the product of class c exceeds that of class d by more than a relative
\* 2^-52 * (LibmSlack + the sum of the factors of the two products): the f64
\* score of c is then strictly greater than that of d
ScoreGreater(T, r, c, d) ==
    FarAbove(Score(T, r, c), Score(T, r, d),
             ScoreSlack(CountTerms(T, r, c), CountTerms(T, r, d)))

\* count(c) and every 1 + count(c, i, r[i]) are the same for the two classes:
\* the two scores are sums of the same terms in the same order, hence the
\* same f64
ScoreSame(T, r) == CountTerms(T, r, "Republican") = CountTerms(T, r, "Democrat")

\* C5 as stated: predict returns the class with the strictly greater score and
\* Republican, the first class, when the two scores are equal.  (Stated for
\* the records whose two scores are certainly equal, ScoreSame, and for those
\* whose scores certainly differ, ScoreGreater.)
C5_TieRepublican ==
    (pc = "predicted") =>
        /\ ScoreGreater(training_set_merged, row, "Republican", "Democrat")
              => prediction = "Republican"
        /\ ScoreGreater(training_set_merged, row, "Democrat", "Republican")
              => prediction = "Democrat"
        /\ ScoreSame(training_set_merged, row) => prediction = "Republican"

\* C5 as amended: predict returns the class with the strictly greater f64
\* score and Democrat, the second class, when the two f64 scores are equal.
\* The scores are equal when count(c) and every 1 + count(c, i, r[i]) are the
\* same for the two classes; the score of a class is strictly greater when
\* its product count(c) * prod_i (1 + count(c, i, r[i])) exceeds the other
\* product by more than a relative 2^-52 * (16384 + the sum of the factors of
\* the two products).
C5_TieDemocrat ==
    (pc = "predicted") =>
        /\ ScoreGreater(training_set_merged, row, "Republican", "Democrat")
              => prediction = "Republican"
        /\ ScoreGreater(training_set_merged, row, "Democrat", "Republican")
              => prediction = "Democrat"
        /\ ScoreSame(training_set_merged, row) => prediction = "Democrat"

\* a tie between two classes that both occur in the training set
C5_Witness ==
    /\ pc = "predicted"
    /\ CountClass(training_set_merged, "Republican") > 0
    /\ CountClass(training_set_merged, "Democrat") > 0
    /\ ScoreSame(training_set_merged, row)
    /\ prediction = "Democrat"

\* the rows of the testing set that were predicted as their own class
Matches ==
    Cardinality({k \in 1..Len(testing_set) :
                    predictions[k] = testing_set[k].class})

\* get_accuracy has returned: to the harness, or to a round of main
AccuracyReturned == pc = "evaluated" \/ RoundDone

\* C6: for a non-empty testing set get_accuracy returns (the number of rows
\* predicted as their own class) / |testing set| (to within 1e-9), a value in
\* [0, 1]; for one row it is 1 on a match and 0 on a mismatch.
C6_Accuracy ==
    (AccuracyReturned /\ Len(testing_set) > 0) =>
        /\ \A k \in 1..Len(testing_set) :
              predictions[k] \in predict(model, testing_set[k])
        /\ Close(accuracy, Matches, Len(testing_set))
        /\ BigLeq(F64Zero, accuracy)
        /\ BigLeq(accuracy, F64One)
        /\ Len(testing_set) = 1 =>
              accuracy = IF Matches = 1 THEN F64One ELSE F64Zero

\* C8: get_accuracy called with an empty testing set fails with an error; it
\* does not return a value.
C8_EmptyTestingSetFails ==
    ~(pc = "evaluated" /\ testing_set = <<>>)

\* ---- main

\* the exact sum of f64s
RECURSIVE BigSum(_)
BigSum(xs) ==
    IF xs = <<>> THEN <<>> ELSE BigAdd(Head(xs), BigSum(Tail(xs)))

\* C7: when the run completes, the average printed is (to within 1e-9) the
\* sum of the accuracies printed divided by the number of accuracies printed.
C7_MeanOfPrinted ==
    (pc = "done" /\ Len(data) >= K) =>
        BigLeq(BigAbsDiff(BigMulSmall(avg_accuracy[1], Len(printed)),
                          BigSum(printed)),
               BigMulSmall(Tolerance, Len(printed)))

\* all folds but fold f (counted from 0), one after the other
ConcatExcept(folds, f) ==
    Flatten(SubSeq(folds, 1, f)) \o Flatten(SubSeq(folds, f + 2, Len(folds)))

C9_Round ==
    RoundDone =>
        LET f == testing_set_idx - 1
        IN  /\ training_set_merged = ConcatExcept(split_data, f)
            /\ testing_set = At(split_data, f)
            /\ Len(printed) = testing_set_idx

C9_Frame ==
    (pc = "loop") =>
        /\ split_data' = split_data
        /\ testing_set_idx' \in {testing_set_idx, testing_set_idx + 1}

\* C9: the folds are obtained once and no round changes them; round f
\* (f = 0, 1, ... in this order) trains on the concatenation of all folds but
\* fold f and tests on fold f.
C9_RoundsUseThePartition == []C9_Round /\ [][C9_Frame]_vars

\* a round other than the first has run, on a partition with a remainder
C9_Witness ==
    /\ RoundDone
    /\ testing_set_idx >= 2
    /\ testing_set = At(split_data, testing_set_idx - 1)
    /\ Len(training_set_merged) + Len(testing_set) = TotalSize(split_data)

\* C10: in no round is a row of the held-out fold also in the training set.
C10_TestRowsNotTrainedOn ==
    RoundDone => Ids(testing_set) \cap Ids(training_set_merged) = {}

====
